---- MODULE Spec2Model ----
(***************************************************************************)
(* Retail analytics dashboard (src/app.py): a Streamlit script that is     *)
(* re-run from top to bottom on every widget interaction.  One run is      *)
(*   load_data (memoized) -> sidebar widgets -> filters -> sidebar stats   *)
(*   -> empty check -> KPIs -> the chart tables.                           *)
(* The script position is pc; every script variable is a model variable    *)
(* with the script's name.                                                 *)
(*                                                                         *)
(* Encoding of values                                                      *)
(*   NaN / None            the string NaN (identifiers are strings)        *)
(*   a calendar date       the integer yyyymmdd, ordered like the date     *)
(*   YearMonth             the integer yyyymm, ordered like "yyyy-mm"      *)
(*   UnitPrice, TotalPrice integers (an amount in the currency's cents)    *)
(*   a float quotient      the pair [num, den], compared by cross product  *)
(*   a DataFrame           the sequence of its rows (records)              *)
(*   DataFrame[mask]       SelectSeq: the rows that pass, in their order   *)
(***************************************************************************)
EXTENDS Integers, Sequences, FiniteSets, TLC

VARIABLES
  files,               \* the two candidate CSV files on disk
  cache,               \* st.cache_data memo of load_data
  pc,                  \* position of the current script run
  reads,               \* candidate files pd.read_csv was called on, in order
  error,               \* class of the exception caught at line 58
  shown,               \* st.error / st.warning elements rendered by the run
  df,                  \* line 56
  date_range,          \* line 75
  selected_countries,  \* line 87
  filtered_df,         \* lines 94-103
  info,                \* sidebar "Dataset Info", lines 108-113
  total_revenue, total_orders, total_customers, avg_order_value,
  monthly_revenue, monthly_orders,
  country_stats, top5,
  top_products_qty, top_products_rev,
  hourly, order_distribution

vars == <<files, cache, pc, reads, error, shown, df, date_range,
          selected_countries, filtered_df, info,
          total_revenue, total_orders, total_customers, avg_order_value,
          monthly_revenue, monthly_orders, country_stats, top5,
          top_products_qty, top_products_rev, hourly, order_distribution>>

kpis == <<total_revenue, total_orders, total_customers, avg_order_value>>

tables == <<monthly_revenue, monthly_orders, country_stats, top5,
            top_products_qty, top_products_rev, hourly, order_distribution>>

----------------------------------------------------------------------------
(* Bounds of the model *)

\* longest CSV file (rows) of the small-file specifications
MaxRows == 2

\* rows of the wide file of SpecTop beyond one row per group
ExtraRows == 2

(* Program constants *)

\* .head(10), lines 200, 241, 265
TopN == 10

\* .head(5), line 220
TopShare == 5

\* order_distribution['Orders'] <= 20, line 320
OrderCap == 20

----------------------------------------------------------------------------
(* Generic helpers *)

NaN == "NaN"

Range(s) == {s[i] : i \in 1..Len(s)}

RECURSIVE SumSeq(_)
SumSeq(s) == IF s = <<>> THEN 0 ELSE s[1] + SumSeq(Tail(s))

Column(frame, col) == [i \in 1..Len(frame) |-> frame[i][col]]

\* Series.nunique(): distinct values, NaN not counted
NUnique(s) == Cardinality(Range(s) \ {NaN})

\* DataFrame.head(n)
HeadN(frame, n) == SubSeq(frame, 1, IF Len(frame) < n THEN Len(frame) ELSE n)

Min(S) == CHOOSE x \in S : \A y \in S : x <= y

Max(S) == CHOOSE x \in S : \A y \in S : x >= y

\* the members of S in the order of the sequence `order` (sorted unique keys)
Sorted(S, order) == SelectSeq(order, LAMBDA k : k \in S)

RECURSIVE SortedInts(_)
SortedInts(S) ==
  IF S = {} THEN <<>> ELSE <<Min(S)>> \o SortedInts(S \ {Min(S)})

----------------------------------------------------------------------------
(* The value universe: strings in lexicographic order, dates, hours *)

CountryOrder ==
  << "Australia", "Belgium", "Cyprus", "Denmark", "EIRE", "France",
     "Germany", "Italy", "Japan", "Norway", "Spain", "United Kingdom" >>

DescriptionOrder ==
  << "ALARM CLOCK", "BAKING SET", "CAKE TIN", "DOORMAT", "EGG CUP",
     "FELT HEART", "GIFT BAG", "HAND WARMER", "JAM JAR", "LUNCH BOX",
     "MINT TIN", "PARTY BUNTING" >>

Calendar == {20110105, 20110106, 20110201}

RawRow(inv, desc, qty, price, parses, date, hour, cust, country) ==
  [InvoiceNo |-> inv, Description |-> desc, Quantity |-> qty,
   UnitPrice |-> price,
   InvoiceDate |-> [parses |-> parses, date |-> date, hour |-> hour],
   CustomerID |-> cust, Country |-> country]

----------------------------------------------------------------------------
(* load_data, lines 33-52 *)

\* a candidate file: missing, present but rejected by pd.read_csv
\* (undecodable), read but without the InvoiceDate column (noschema), or read
MissingFile == [status |-> "missing", rows |-> <<>>]

UndecodableFile == [status |-> "undecodable", rows |-> <<>>]

NoSchemaFile == [status |-> "noschema", rows |-> <<>>]

CsvFile(rows) == [status |-> "ok", rows |-> rows]

\* pd.read_csv(path, encoding='ISO-8859-1') returns a frame
ReadCsvOk(f) == f.status \in {"ok", "noschema"}

\* the exception pd.read_csv raises otherwise
ReadCsvError(f) ==
  IF f.status = "missing" THEN "FileNotFoundError" ELSE "ParserError"

\* lines 35-38: the files read_csv is called on
ReadsOf(fs) == IF ReadCsvOk(fs[1]) THEN <<1>> ELSE <<1, 2>>

\* line 41: pd.to_datetime raises on a frame holding an unparseable date
DatesParse(rows) == \A i \in 1..Len(rows) : rows[i].InvoiceDate.parses

\* mutant of line 42: Quantity >= 0
QuantityOkMutant(r) == r.Quantity >= 0

\* line 42
QuantityOk(r) == r.Quantity > 0

\* line 43
UnitPriceOk(r) == r.UnitPrice > 0

\* line 44
DescriptionOk(r) == r.Description # NaN

\* line 47
TotalPriceOf(r) == r.Quantity * r.UnitPrice

\* line 48: dt.to_period('M').astype(str)
YearMonthOf(r) == r.InvoiceDate.date \div 100

\* lines 47-50
Derive(r) ==
  [InvoiceNo |-> r.InvoiceNo, Description |-> r.Description,
   Quantity |-> r.Quantity, UnitPrice |-> r.UnitPrice,
   InvoiceDate |-> r.InvoiceDate, CustomerID |-> r.CustomerID,
   Country |-> r.Country,
   TotalPrice |-> TotalPriceOf(r), YearMonth |-> YearMonthOf(r),
   Date |-> r.InvoiceDate.date, Hour |-> r.InvoiceDate.hour]

\* lines 42-50
Clean(rows) ==
  LET a == SelectSeq(rows, QuantityOk)
      b == SelectSeq(a, UnitPriceOk)
      c == SelectSeq(b, DescriptionOk)
  IN  [i \in 1..Len(c) |-> Derive(c[i])]

\* lines 34-52: what one call of the function body does
load_data(fs) ==
  LET reads_ == ReadsOf(fs)
      f == fs[reads_[Len(reads_)]]
  IN  IF ~ReadCsvOk(f)
        THEN [raised |-> TRUE, exc |-> ReadCsvError(f), reads |-> reads_,
              value |-> <<>>]
      ELSE IF f.status = "noschema"
        THEN [raised |-> TRUE, exc |-> "KeyError", reads |-> reads_,
              value |-> <<>>]
      ELSE IF ~DatesParse(f.rows)
        THEN [raised |-> TRUE, exc |-> "DateParseError", reads |-> reads_,
              value |-> <<>>]
      ELSE [raised |-> FALSE, exc |-> "", reads |-> reads_,
            value |-> Clean(f.rows)]

----------------------------------------------------------------------------
(* Filters, lines 94-103 *)

\* mutant of lines 96-100: the end of the interval is excluded
DateFilterOpenEnd(frame, dr) ==
  IF Len(dr) = 2
    THEN SelectSeq(frame, LAMBDA r : r.Date >= dr[1] /\ r.Date < dr[2])
    ELSE frame

\* mutant of lines 96-100: a single date selects that day
DateFilterSingleDay(frame, dr) ==
  IF Len(dr) = 2
    THEN SelectSeq(frame, LAMBDA r : r.Date >= dr[1] /\ r.Date <= dr[2])
  ELSE IF Len(dr) = 1
    THEN SelectSeq(frame, LAMBDA r : r.Date = dr[1])
    ELSE frame

\* lines 96-100
DateFilter(frame, dr) ==
  IF Len(dr) = 2
    THEN SelectSeq(frame, LAMBDA r : r.Date >= dr[1] /\ r.Date <= dr[2])
    ELSE frame

\* mutant of lines 102-103: the test for an empty selection is missing
CountryFilterAlways(frame, sc) == SelectSeq(frame, LAMBDA r : r.Country \in sc)

\* lines 102-103
CountryFilter(frame, sc) ==
  IF sc # {} THEN SelectSeq(frame, LAMBDA r : r.Country \in sc) ELSE frame

\* lines 94-103
Filter(frame, dr, sc) == CountryFilter(DateFilter(frame, dr), sc)

\* lines 108-113
DatasetInfo(frame) ==
  [Records |-> Len(frame),
   Countries |-> NUnique(Column(frame, "Country")),
   Products |-> NUnique(Column(frame, "Description")),
   Orders |-> NUnique(Column(frame, "InvoiceNo"))]

----------------------------------------------------------------------------
(* Sidebar widgets, lines 72-91 *)

\* line 83
all_countries(frame) == Sorted(Range(Column(frame, "Country")), CountryOrder)

\* lines 84-85
default_countries(frame) ==
  Range(all_countries(frame)) \cap {"United Kingdom", "France", "Germany"}

\* line 90
DefaultSelection(frame) ==
  IF default_countries(frame) # {}
    THEN default_countries(frame)
    ELSE Range(HeadN(all_countries(frame), 3))

\* lines 75-80: a range date_input returns a tuple of 0 to 2 dates, each
\* between min_value and max_value
DateChoices(frame) ==
  LET dates == Range(Column(frame, "Date"))
      days == {d \in Calendar : Min(dates) <= d /\ d <= Max(dates)}
  IN  {<<>>} \cup {<<a>> : a \in days} \cup {<<a, b>> : a \in days, b \in days}

\* lines 87-91: a multiselect returns a sublist of its options.  The choices
\* taken: the default, nothing, everything, one country alone, all but one
CountryChoices(frame) ==
  LET options == Range(all_countries(frame))
  IN  {DefaultSelection(frame), {}, options}
        \cup {{c} : c \in options} \cup {options \ {c} : c \in options}

----------------------------------------------------------------------------
(* Aggregation, lines 125-128, 147, 167, 195-200, 220, 240-241, 264-265,
   295, 315-320 *)

\* mutant of line 116: the check never fires
IsEmptyNever(frame) == Len(frame) < 0

\* line 116
IsEmpty(frame) == Len(frame) = 0

\* a float quotient num / den
Ratio(n, d) == [num |-> n, den |-> d]

\* line 125
TotalRevenue(frame) == SumSeq(Column(frame, "TotalPrice"))

\* line 126
TotalOrders(frame) == NUnique(Column(frame, "InvoiceNo"))

\* line 127
TotalCustomers(frame) ==
  NUnique(SelectSeq(Column(frame, "CustomerID"), LAMBDA c : c # NaN))

\* mutant of line 128: the guard against zero orders is missing
AvgOrderValueUnguarded(revenue, orders) == [num |-> revenue, den |-> orders]

\* line 128
AvgOrderValue(revenue, orders) ==
  IF orders > 0 THEN Ratio(revenue, orders) ELSE Ratio(0, 1)

\* groupby(key): the rows of one group
Group(frame, key, k) == SelectSeq(frame, LAMBDA r : r[key] = k)

\* groupby(key) on a string column: the group keys, sorted, NaN dropped
GroupKeys(frame, key, order) ==
  Sorted(Range(Column(frame, key)) \ {NaN}, order)

\* groupby(key) on an integer column: the group keys, sorted
IntGroupKeys(frame, key) == SortedInts(Range(Column(frame, key)))

\* one insertion of sort_values(col, ascending=False).  The default sort kind
\* (quicksort) leaves the order of equal measures open: keepTies puts them
\* in the order of the input, ~keepTies in the opposite order.
RECURSIVE InsertDesc(_, _, _, _)
InsertDesc(s, x, col, keepTies) ==
  IF s = <<>> THEN <<x>>
  ELSE IF s[1][col] > x[col] \/ (keepTies /\ s[1][col] = x[col])
    THEN <<s[1]>> \o InsertDesc(Tail(s), x, col, keepTies)
    ELSE <<x>> \o s

\* mutant of sort_values: the table is left in group-key order
SortDescMissing(table, col, keepTies) == table

\* sort_values(col, ascending=False)
RECURSIVE SortDesc(_, _, _)
SortDesc(table, col, keepTies) ==
  IF table = <<>> THEN <<>>
  ELSE InsertDesc(SortDesc(SubSeq(table, 1, Len(table) - 1), col, keepTies),
                  table[Len(table)], col, keepTies)

\* lines 147-148
MonthlyRevenue(frame) ==
  LET ks == IntGroupKeys(frame, "YearMonth")
  IN  [i \in 1..Len(ks) |->
        [Month |-> ks[i],
         Revenue |-> SumSeq(Column(Group(frame, "YearMonth", ks[i]),
                                   "TotalPrice"))]]

\* lines 167-168
MonthlyOrders(frame) ==
  LET ks == IntGroupKeys(frame, "YearMonth")
  IN  [i \in 1..Len(ks) |->
        [Month |-> ks[i],
         Orders |-> NUnique(Column(Group(frame, "YearMonth", ks[i]),
                                   "InvoiceNo"))]]

\* lines 195-199
CountryTable(frame) ==
  LET ks == GroupKeys(frame, "Country", CountryOrder)
  IN  [i \in 1..Len(ks) |->
        [Country |-> ks[i],
         Revenue |-> SumSeq(Column(Group(frame, "Country", ks[i]),
                                   "TotalPrice")),
         Orders |-> NUnique(Column(Group(frame, "Country", ks[i]),
                                   "InvoiceNo"))]]

\* line 200
CountryStats(frame, keepTies) ==
  HeadN(SortDesc(CountryTable(frame), "Revenue", keepTies), TopN)

\* line 220
Top5(stats) == HeadN(stats, TopShare)

\* line 240
ProductQuantity(frame) ==
  LET ks == GroupKeys(frame, "Description", DescriptionOrder)
  IN  [i \in 1..Len(ks) |->
        [Description |-> ks[i],
         Quantity |-> SumSeq(Column(Group(frame, "Description", ks[i]),
                                    "Quantity"))]]

\* line 241
TopProductsQty(frame, keepTies) ==
  HeadN(SortDesc(ProductQuantity(frame), "Quantity", keepTies), TopN)

\* line 264
ProductRevenue(frame) ==
  LET ks == GroupKeys(frame, "Description", DescriptionOrder)
  IN  [i \in 1..Len(ks) |->
        [Description |-> ks[i],
         TotalPrice |-> SumSeq(Column(Group(frame, "Description", ks[i]),
                                      "TotalPrice"))]]

\* line 265
TopProductsRev(frame, keepTies) ==
  HeadN(SortDesc(ProductRevenue(frame), "TotalPrice", keepTies), TopN)

\* lines 295-296
Hourly(frame) ==
  LET ks == IntGroupKeys(frame, "Hour")
  IN  [i \in 1..Len(ks) |->
        [Hour |-> ks[i],
         Orders |-> NUnique(Column(Group(frame, "Hour", ks[i]),
                                   "InvoiceNo"))]]

\* lines 315-316: CustomerID -> number of distinct invoices (NaN dropped)
CustomerOrders(frame) ==
  LET ids == Range(Column(frame, "CustomerID")) \ {NaN}
  IN  [c \in ids |-> NUnique(Column(Group(frame, "CustomerID", c),
                                    "InvoiceNo"))]

\* lines 318-320
OrderDistribution(frame) ==
  LET co == CustomerOrders(frame)
      counts == SortedInts({co[c] : c \in DOMAIN co})
      dist == [i \in 1..Len(counts) |->
                [Orders |-> counts[i],
                 Customers |->
                   Cardinality({c \in DOMAIN co : co[c] = counts[i]})]]
  IN  SelectSeq(dist, LAMBDA d : d.Orders <= OrderCap)

----------------------------------------------------------------------------
(* One script run, lines 55-341, and the rerun that follows an interaction *)

NoInfo == [Records |-> 0, Countries |-> 0, Products |-> 0, Orders |-> 0]

\* the script's variables before the run assigns them
Unassigned ==
  /\ reads = <<>> /\ error = "" /\ shown = <<>>
  /\ df = <<>> /\ date_range = <<>> /\ selected_countries = {}
  /\ filtered_df = <<>> /\ info = NoInfo
  /\ total_revenue = 0 /\ total_orders = 0 /\ total_customers = 0
  /\ avg_order_value = Ratio(0, 1)
  /\ monthly_revenue = <<>> /\ monthly_orders = <<>>
  /\ country_stats = <<>> /\ top5 = <<>>
  /\ top_products_qty = <<>> /\ top_products_rev = <<>>
  /\ hourly = <<>> /\ order_distribution = <<>>

\* line 56 with a memo hit: st.cache_data hands back a copy of the memo
LoadCached ==
  /\ pc = "start" /\ cache.set
  /\ df' = cache.value
  /\ pc' = "loaded"
  /\ UNCHANGED <<files, cache, reads, error, shown, date_range,
                 selected_countries, filtered_df, info, kpis, tables>>

\* line 56 with a memo miss: load_data runs and its result is memoized
LoadFresh ==
  /\ pc = "start" /\ ~cache.set
  /\ ~load_data(files).raised
  /\ cache' = [set |-> TRUE, value |-> load_data(files).value]
  /\ df' = load_data(files).value
  /\ reads' = load_data(files).reads
  /\ pc' = "loaded"
  /\ UNCHANGED <<files, error, shown, date_range, selected_countries,
                 filtered_df, info, kpis, tables>>

\* lines 58-61: load_data raised; st.error, st.info, st.stop
LoadFails ==
  /\ pc = "start" /\ ~cache.set
  /\ load_data(files).raised
  /\ error' = load_data(files).exc
  /\ reads' = load_data(files).reads
  /\ shown' = <<"error", "info">>
  /\ pc' = "load_error"
  /\ UNCHANGED <<files, cache, df, date_range, selected_countries,
                 filtered_df, info, kpis, tables>>

\* lines 72-91: the widgets return the user's selection
Widgets ==
  /\ pc = "loaded" /\ Len(df) > 0
  /\ date_range' \in DateChoices(df)
  /\ selected_countries' \in CountryChoices(df)
  /\ pc' = "selected"
  /\ UNCHANGED <<files, cache, reads, error, shown, df, filtered_df, info,
                 kpis, tables>>

\* lines 72-80 on a frame without rows: min() and max() are NaN, which
\* st.date_input rejects; the exception is caught nowhere
WidgetsRaise ==
  /\ pc = "loaded" /\ Len(df) = 0
  /\ error' = "StreamlitAPIException"
  /\ pc' = "crashed"
  /\ UNCHANGED <<files, cache, reads, shown, df, date_range,
                 selected_countries, filtered_df, info, kpis, tables>>

\* mutant of lines 94-113: no copy, the memoized frame itself is filtered
ApplyFiltersInPlace ==
  /\ pc = "selected"
  /\ filtered_df' = Filter(df, date_range, selected_countries)
  /\ cache' = [cache EXCEPT !.value = filtered_df']
  /\ info' = DatasetInfo(filtered_df')
  /\ shown' = Append(shown, "sidebar_info")
  /\ pc' = "filtered"
  /\ UNCHANGED <<files, reads, error, df, date_range,
                 selected_countries, kpis, tables>>

\* lines 94-113
ApplyFilters ==
  /\ pc = "selected"
  /\ filtered_df' = Filter(df, date_range, selected_countries)
  /\ info' = DatasetInfo(filtered_df')
  /\ shown' = Append(shown, "sidebar_info")
  /\ pc' = "filtered"
  /\ UNCHANGED <<files, cache, reads, error, df, date_range,
                 selected_countries, kpis, tables>>

\* lines 116-118: st.warning, st.stop
NoData ==
  /\ pc = "filtered" /\ IsEmpty(filtered_df)
  /\ shown' = Append(shown, "warning")
  /\ pc' = "no_data"
  /\ UNCHANGED <<files, cache, reads, error, df, date_range,
                 selected_countries, filtered_df, info, kpis, tables>>

\* lines 120-137
KPIs ==
  /\ pc = "filtered" /\ ~IsEmpty(filtered_df)
  /\ total_revenue' = TotalRevenue(filtered_df)
  /\ total_orders' = TotalOrders(filtered_df)
  /\ total_customers' = TotalCustomers(filtered_df)
  /\ avg_order_value' = AvgOrderValue(total_revenue', total_orders')
  /\ shown' = Append(shown, "metrics")
  /\ pc' = "kpis"
  /\ UNCHANGED <<files, cache, reads, error, df, date_range,
                 selected_countries, filtered_df, info, tables>>

\* lines 141-185
SalesTrends ==
  /\ pc = "kpis"
  /\ monthly_revenue' = MonthlyRevenue(filtered_df)
  /\ monthly_orders' = MonthlyOrders(filtered_df)
  /\ shown' = Append(shown, "trend_charts")
  /\ pc' = "trends"
  /\ UNCHANGED <<files, cache, reads, error, df, date_range,
                 selected_countries, filtered_df, info, kpis, country_stats,
                 top5, top_products_qty, top_products_rev, hourly,
                 order_distribution>>

\* lines 189-229
Geographic ==
  /\ pc = "trends"
  /\ \E keepTies \in BOOLEAN :
       country_stats' = CountryStats(filtered_df, keepTies)
  /\ top5' = Top5(country_stats')
  /\ shown' = Append(shown, "country_charts")
  /\ pc' = "geographic"
  /\ UNCHANGED <<files, cache, reads, error, df, date_range,
                 selected_countries, filtered_df, info, kpis,
                 monthly_revenue, monthly_orders, top_products_qty,
                 top_products_rev, hourly, order_distribution>>

\* lines 234-285
Products ==
  /\ pc = "geographic"
  /\ \E keepTies \in BOOLEAN :
       /\ top_products_qty' = TopProductsQty(filtered_df, keepTies)
       /\ top_products_rev' = TopProductsRev(filtered_df, keepTies)
  /\ shown' = Append(shown, "product_charts")
  /\ pc' = "products"
  /\ UNCHANGED <<files, cache, reads, error, df, date_range,
                 selected_countries, filtered_df, info, kpis,
                 monthly_revenue, monthly_orders, country_stats, top5,
                 hourly, order_distribution>>

\* lines 289-341
PurchasePatterns ==
  /\ pc = "products"
  /\ hourly' = Hourly(filtered_df)
  /\ order_distribution' = OrderDistribution(filtered_df)
  /\ shown' = Append(shown, "pattern_charts")
  /\ pc' = "done"
  /\ UNCHANGED <<files, cache, reads, error, df, date_range,
                 selected_countries, filtered_df, info, kpis,
                 monthly_revenue, monthly_orders, country_stats, top5,
                 top_products_qty, top_products_rev>>

\* a widget interaction (or a page reload) after the run has ended: the
\* script starts again with fresh variables; only the memo survives
Rerun ==
  /\ pc \in {"done", "no_data", "load_error", "crashed"}
  /\ pc' = "start"
  /\ reads' = <<>> /\ error' = "" /\ shown' = <<>>
  /\ df' = <<>> /\ date_range' = <<>> /\ selected_countries' = {}
  /\ filtered_df' = <<>> /\ info' = NoInfo
  /\ total_revenue' = 0 /\ total_orders' = 0 /\ total_customers' = 0
  /\ avg_order_value' = Ratio(0, 1)
  /\ monthly_revenue' = <<>> /\ monthly_orders' = <<>>
  /\ country_stats' = <<>> /\ top5' = <<>>
  /\ top_products_qty' = <<>> /\ top_products_rev' = <<>>
  /\ hourly' = <<>> /\ order_distribution' = <<>>
  /\ UNCHANGED <<files, cache>>

Next ==
  \/ LoadCached \/ LoadFresh \/ LoadFails
  \/ Widgets \/ WidgetsRaise
  \/ ApplyFilters \/ NoData
  \/ KPIs \/ SalesTrends \/ Geographic \/ Products \/ PurchasePatterns
  \/ Rerun

----------------------------------------------------------------------------
(* Initial states: the files on disk, nothing memoized, a first run about
   to start *)

\* the CSV files of at most n rows drawn from pool
FilesUpTo(pool, n) ==
  UNION {{CsvFile(r) : r \in [1..k -> pool]} : k \in 0..n}

Fallback ==
  CsvFile(<<RawRow("536365", "ALARM CLOCK", 1, 2, TRUE, 20110105, 8,
                   "17850", "United Kingdom")>>)

\* the pairs of candidate files.  read_csv never opens the second file when
\* it accepts the first, so a first file that is read comes with one
\* fallback file; a first file that is not read comes with every second file
Candidates(csvs) ==
  {<<a, Fallback>> : a \in csvs \cup {NoSchemaFile}}
    \cup {<<a, b>> : a \in {MissingFile, UndecodableFile},
                     b \in csvs \cup {MissingFile, UndecodableFile,
                                      NoSchemaFile}}

InitWith(csvs) ==
  /\ files \in Candidates(csvs)
  /\ cache = [set |-> FALSE, value |-> <<>>]
  /\ pc = "start"
  /\ Unassigned

\* Spec: files whose rows differ in country and date (and one return)
FilterRows ==
  {RawRow("536365", "ALARM CLOCK", 5, 2, TRUE, 20110105, 8, "17850",
          "United Kingdom"),
   RawRow("536366", "BAKING SET", 1, 3, TRUE, 20110106, 9, "17850",
          "United Kingdom"),
   RawRow("536367", "ALARM CLOCK", 3, 2, TRUE, 20110201, 9, "13047",
          "United Kingdom"),
   RawRow("536368", "CAKE TIN", 2, 4, TRUE, 20110105, 10, "12583",
          "France"),
   RawRow("536369", "BAKING SET", 2, 3, TRUE, 20110106, 8, NaN,
          "France"),
   RawRow("536370", "CAKE TIN", 2, 4, TRUE, 20110201, 13, "12583",
          "France"),
   RawRow("C536379", "ALARM CLOCK", -1, 3, TRUE, 20110106, 9, "17850",
          "United Kingdom")}

Init == InitWith(FilesUpTo(FilterRows, MaxRows))

Spec == Init /\ [][Next]_vars

\* SpecLoad: files whose rows differ in what the cleaning looks at
DirtyRows ==
  {RawRow("536365", "ALARM CLOCK", 5, 2, TRUE, 20110105, 8, "17850",
          "United Kingdom"),
   RawRow("536370", "CAKE TIN", 2, 4, TRUE, 20110201, 13, "12583",
          "France"),
   RawRow("536366", "ALARM CLOCK", 0, 2, TRUE, 20110105, 8, "17850",
          "United Kingdom"),
   RawRow("C536379", "ALARM CLOCK", -1, 3, TRUE, 20110106, 9, "17850",
          "United Kingdom"),
   RawRow("536371", "ALARM CLOCK", 5, 0, TRUE, 20110105, 8, "17850",
          "United Kingdom"),
   RawRow("A563185", "BAKING SET", 1, -3, TRUE, 20110105, 8, NaN,
          "United Kingdom"),
   RawRow("C536380", "BAKING SET", -2, -3, TRUE, 20110105, 8, NaN,
          "United Kingdom"),
   RawRow("536372", NaN, 5, 2, TRUE, 20110105, 8, NaN,
          "United Kingdom"),
   RawRow("536373", "ALARM CLOCK", 5, 2, FALSE, 0, 0, "17850",
          "United Kingdom")}

InitLoad == InitWith(FilesUpTo(DirtyRows, MaxRows))

SpecLoad == InitLoad /\ [][Next]_vars

\* SpecKpi: files whose rows share invoices and customers, some without an
\* invoice number or a customer
OrderRows ==
  {RawRow("536365", "ALARM CLOCK", 5, 2, TRUE, 20110105, 8, "17850",
          "United Kingdom"),
   RawRow("536365", "BAKING SET", 1, 3, TRUE, 20110105, 8, NaN,
          "United Kingdom"),
   RawRow("536370", "CAKE TIN", 2, 4, TRUE, 20110201, 13, "17850",
          "France"),
   RawRow("536370", "ALARM CLOCK", 3, 1, TRUE, 20110106, 9, "13047",
          "United Kingdom"),
   RawRow(NaN, "BAKING SET", 1, 7, TRUE, 20110105, 8, "13047",
          "United Kingdom"),
   RawRow(NaN, "CAKE TIN", 2, 5, TRUE, 20110201, 13, NaN,
          "France")}

InitKpi == InitWith(FilesUpTo(OrderRows, MaxRows))

SpecKpi == InitKpi /\ [][Next]_vars

\* SpecTop: wide files, with more countries and more products than a top-N
\* table keeps.  Row i is sold in country i and the rows past the last
\* country start again at the first; products are spread the same way with
\* a different stride.  Quantities and prices follow one of a few profiles,
\* some with equal values (ties), some without.
WideLen == Len(CountryOrder) + ExtraRows

Profiles ==
  {[i \in 1..WideLen |-> 1],
   [i \in 1..WideLen |-> i],
   [i \in 1..WideLen |-> (i % 3) + 1],
   [i \in 1..WideLen |-> ((i * 7) % 5) + 1]}

WideRow(i, qty, price) ==
  RawRow(IF i % 4 = 0 THEN "536365" ELSE IF i % 4 = 1 THEN "536366"
           ELSE IF i % 4 = 2 THEN "536367" ELSE NaN,
         DescriptionOrder[(((i - 1) * 5) % Len(DescriptionOrder)) + 1],
         qty, price, TRUE,
         IF i % 2 = 1 THEN 20110105 ELSE 20110106,
         8 + (i % 3),
         IF i % 3 = 0 THEN NaN ELSE IF i % 3 = 1 THEN "17850" ELSE "13047",
         CountryOrder[((i - 1) % Len(CountryOrder)) + 1])

WideFiles ==
  {CsvFile([i \in 1..WideLen |-> WideRow(i, q[i], p[i])]) :
     q \in Profiles, p \in Profiles}

InitTop ==
  /\ files \in {<<a, Fallback>> : a \in WideFiles \cup {CsvFile(<<>>)}}
                 \cup {<<MissingFile, UndecodableFile>>}
  /\ cache = [set |-> FALSE, value |-> <<>>]
  /\ pc = "start"
  /\ Unassigned

SpecTop == InitTop /\ [][Next]_vars

----------------------------------------------------------------------------
(* Properties *)

\* positions of a run at which load_data has returned a dataset
Loaded ==
  {"loaded", "selected", "filtered", "no_data", "kpis", "trends",
   "geographic", "products", "done", "crashed"}

\* positions of a run at which the filtered view exists
Filtered ==
  {"filtered", "no_data", "kpis", "trends", "geographic", "products", "done"}

\* positions of a run at which the KPI scalars exist
Measured == {"kpis", "trends", "geographic", "products", "done"}

\* the candidate file whose rows load_data cleans
SourceFile ==
  IF files[1].status \in {"missing", "undecodable"} THEN files[2]
  ELSE files[1]

RawPart(row) ==
  [InvoiceNo |-> row.InvoiceNo, Description |-> row.Description,
   Quantity |-> row.Quantity, UnitPrice |-> row.UnitPrice,
   InvoiceDate |-> row.InvoiceDate, CustomerID |-> row.CustomerID,
   Country |-> row.Country]

\* C1: every row of the dataset load_data returns has Quantity > 0,
\* UnitPrice > 0, a Description, and TotalPrice = Quantity * UnitPrice; and
\* the rows returned are the input rows that meet the first three conditions,
\* all of them, in the order of the file.
C1_CleanedDataset ==
  pc \in Loaded =>
    LET kept == SelectSeq(SourceFile.rows,
                  LAMBDA r : r.Quantity > 0 /\ r.UnitPrice > 0
                               /\ r.Description # NaN)
    IN  /\ \A i \in 1..Len(df) :
             /\ df[i].Quantity > 0
             /\ df[i].UnitPrice > 0
             /\ df[i].Description # NaN
             /\ df[i].TotalPrice = df[i].Quantity * df[i].UnitPrice
        /\ Len(df) = Len(kept)
        /\ \A i \in 1..Len(df) : RawPart(df[i]) = kept[i]

\* C1 witness: a file of two rows was cleaned, one row dropped, one kept
C1_Witness ==
  /\ pc = "loaded"
  /\ Len(SourceFile.rows) = 2
  /\ Len(df) = 1
  /\ df[1].TotalPrice = 10

\* C2: with a two-date interval [start, end] and a country set, the filtered
\* view holds exactly the rows of the cleaned dataset with
\* start <= Date <= end that are in the country set (or any country when
\* the set is empty), unchanged and in their order.
C2_FilteredView ==
  (pc \in Filtered /\ Len(date_range) = 2) =>
    /\ filtered_df =
         SelectSeq(df, LAMBDA r :
           /\ date_range[1] <= r.Date /\ r.Date <= date_range[2]
           /\ (selected_countries = {} \/ r.Country \in selected_countries))
    /\ \A i \in 1..Len(df) :
         (\E j \in 1..Len(filtered_df) : filtered_df[j] = df[i])
           <=> /\ date_range[1] <= df[i].Date
               /\ df[i].Date <= date_range[2]
               /\ (selected_countries = {}
                     \/ df[i].Country \in selected_countries)

\* C2 witness: both predicates restrict; a row on the interval's last day
\* passes and another row is left out
C2_Witness ==
  /\ pc = "filtered"
  /\ Len(date_range) = 2 /\ date_range[1] < date_range[2]
  /\ selected_countries # {}
  /\ Len(df) = 2 /\ Len(filtered_df) = 1
  /\ filtered_df[1].Date = date_range[2]

\* C3: a run whose filtered view has no rows shows the "no data" warning and
\* stops there: no KPI and no chart table is computed, no exception is
\* raised; the rerun that follows starts a fresh run on the memoized dataset.
C3_NoDataStops ==
  /\ [](  (pc \in Filtered \ {"filtered"} /\ Len(filtered_df) = 0) =>
            /\ pc = "no_data"
            /\ shown = <<"sidebar_info", "warning">>
            /\ error = ""
            /\ total_revenue = 0 /\ total_orders = 0 /\ total_customers = 0
            /\ avg_order_value = [num |-> 0, den |-> 1]
            /\ monthly_revenue = <<>> /\ monthly_orders = <<>>
            /\ country_stats = <<>> /\ top5 = <<>>
            /\ top_products_qty = <<>> /\ top_products_rev = <<>>
            /\ hourly = <<>> /\ order_distribution = <<>>
            /\ cache.set /\ cache.value = df )
  /\ [][ pc = "no_data" =>
           /\ pc' = "start"
           /\ cache' = cache
           /\ shown' = <<>> /\ error' = "" ]_vars
  /\ []( (pc = "start" /\ cache.set) => ENABLED LoadCached )

\* C3 witness: the dataset has rows, the selection matches none of them
C3_Witness ==
  /\ pc = "no_data"
  /\ Len(df) > 0
  /\ Len(filtered_df) = 0

\* C4 (as claimed): a load is reported as failed only after both candidate
\* files have been read.
C4_FallbackBeforeFatal ==
  pc = "load_error" => reads = <<1, 2>>

\* C5 (as claimed): a failed load reports "not found" exactly when no
\* candidate file exists, and "malformed" when one exists; nothing is
\* filtered, aggregated or rendered after it.
C5_ErrorKind ==
  pc = "load_error" =>
    /\ (error = "FileNotFoundError")
         <=> (files[1].status = "missing" /\ files[2].status = "missing")
    /\ shown = <<"error", "info">>
    /\ df = <<>> /\ filtered_df = <<>>

\* C6 (as claimed): an interval of other than two dates, or of two dates
\* with the start after the end, restricts nothing: the view is the one the
\* country set alone gives.
C6_MalformedIsNoRestriction ==
  (/\ pc \in Filtered
   /\ \/ Len(date_range) # 2
      \/ (Len(date_range) = 2 /\ date_range[1] > date_range[2])) =>
    filtered_df =
      SelectSeq(df, LAMBDA r :
        selected_countries = {} \/ r.Country \in selected_countries)

\* C6 (amended): an interval of other than two dates restricts nothing: the
\* view is the one the country set alone gives.  An interval of two dates
\* with the start after the end is applied as written and gives a view
\* without rows.  Neither raises an exception.
C6_Amended ==
  /\ (pc \in Filtered /\ Len(date_range) # 2) =>
       /\ filtered_df =
            SelectSeq(df, LAMBDA r :
              selected_countries = {} \/ r.Country \in selected_countries)
       /\ error = ""
  /\ (pc \in Filtered /\ Len(date_range) = 2
        /\ date_range[1] > date_range[2]) =>
       /\ filtered_df = <<>>
       /\ error = ""

\* C6 witness: one date was picked and a row of another day is in the view
C6_Witness ==
  /\ pc = "filtered"
  /\ Len(date_range) = 1
  /\ \E i \in 1..Len(filtered_df) : filtered_df[i].Date # date_range[1]

\* the distinct values of a column of a frame that are not NaN
Distinct(frame, col) == {frame[i][col] : i \in 1..Len(frame)} \ {NaN}

\* the sum of a column over the rows of a frame whose key column holds k
RECURSIVE GroupTotal(_, _, _, _)
GroupTotal(frame, key, k, col) ==
  IF frame = <<>> THEN 0
  ELSE (IF frame[1][key] = k THEN frame[1][col] ELSE 0)
         + GroupTotal(Tail(frame), key, k, col)

\* the sum of a column over all rows of a frame, from the last row up
RECURSIVE ColumnTotal(_, _)
ColumnTotal(frame, col) ==
  IF frame = <<>> THEN 0
  ELSE ColumnTotal(SubSeq(frame, 1, Len(frame) - 1), col)
         + frame[Len(frame)][col]

\* C7: total revenue is the sum of TotalPrice over the view, total orders
\* the number of distinct InvoiceNo, total customers the number of distinct
\* non-null CustomerID, and average order value their quotient, which is 0
\* when there is no order.
C7_KpiScalars ==
  pc \in Measured =>
    /\ total_revenue = ColumnTotal(filtered_df, "TotalPrice")
    /\ total_orders = Cardinality(Distinct(filtered_df, "InvoiceNo"))
    /\ total_customers = Cardinality(Distinct(filtered_df, "CustomerID"))
    /\ avg_order_value.den # 0
    /\ IF total_orders = 0
         THEN avg_order_value.num = 0
         ELSE avg_order_value.num * total_orders
                = total_revenue * avg_order_value.den

\* C7 witness: a view with revenue whose rows carry no invoice number, so
\* that total orders is 0 and the quotient is the guarded 0
C7_Witness ==
  /\ pc = "kpis"
  /\ total_orders = 0
  /\ total_revenue > 0
  /\ total_customers = 1
  /\ avg_order_value.num = 0

\* a top-N table: at most n rows, each the measure of its group in the view,
\* and no group of the view left out has a larger measure than a row kept
TopRows(table, n, key, measure, col) ==
  /\ Len(table) <= n
  /\ \A i \in 1..Len(table) :
       table[i][measure] = GroupTotal(filtered_df, key, table[i][key], col)
  /\ \A g \in Distinct(filtered_df, key) \ {table[i][key] : i \in 1..Len(table)} :
       \A i \in 1..Len(table) :
         GroupTotal(filtered_df, key, g, col) <= table[i][measure]

StrictlyDescending(table, measure) ==
  \A i \in 1..Len(table), j \in 1..Len(table) :
    i < j => table[i][measure] > table[j][measure]

Descending(table, measure) ==
  \A i \in 1..Len(table), j \in 1..Len(table) :
    i < j => table[i][measure] >= table[j][measure]

\* C8 (as claimed): every top-N table has at most N rows, is sorted strictly
\* descending by its measure, and leaves out no group with a larger measure.
C8_TopNStrict ==
  /\ pc \in {"geographic", "products", "done"} =>
       /\ TopRows(country_stats, TopN, "Country", "Revenue", "TotalPrice")
       /\ StrictlyDescending(country_stats, "Revenue")
       /\ TopRows(top5, TopShare, "Country", "Revenue", "TotalPrice")
       /\ StrictlyDescending(top5, "Revenue")
  /\ pc \in {"products", "done"} =>
       /\ TopRows(top_products_qty, TopN, "Description", "Quantity",
                  "Quantity")
       /\ StrictlyDescending(top_products_qty, "Quantity")
       /\ TopRows(top_products_rev, TopN, "Description", "TotalPrice",
                  "TotalPrice")
       /\ StrictlyDescending(top_products_rev, "TotalPrice")

\* C8 (amended): every top-N table has at most N rows, is sorted descending
\* by its measure with equal measures next to each other (never ascending),
\* and leaves out no group with a larger measure; the country share table
\* is the first five rows of the country table.
C8_Amended ==
  /\ pc \in {"geographic", "products", "done"} =>
       /\ TopRows(country_stats, TopN, "Country", "Revenue", "TotalPrice")
       /\ Descending(country_stats, "Revenue")
       /\ TopRows(top5, TopShare, "Country", "Revenue", "TotalPrice")
       /\ Descending(top5, "Revenue")
       /\ Len(top5) <= Len(country_stats)
       /\ top5 = SubSeq(country_stats, 1, Len(top5))
  /\ pc \in {"products", "done"} =>
       /\ TopRows(top_products_qty, TopN, "Description", "Quantity",
                  "Quantity")
       /\ Descending(top_products_qty, "Quantity")
       /\ TopRows(top_products_rev, TopN, "Description", "TotalPrice",
                  "TotalPrice")
       /\ Descending(top_products_rev, "TotalPrice")

\* C8 witness: the view has more countries and more products than the
\* tables keep, the tables are full, and measures of different sizes and of
\* equal size are both present in the country table
C8_Witness ==
  /\ pc = "done"
  /\ Cardinality(Distinct(filtered_df, "Country")) > TopN
  /\ Cardinality(Distinct(filtered_df, "Description")) > TopN
  /\ Len(country_stats) = TopN /\ Len(top5) = TopShare
  /\ Len(top_products_qty) = TopN /\ Len(top_products_rev) = TopN
  /\ country_stats[1].Revenue > country_stats[TopN].Revenue
  /\ \E i \in 1..(TopN - 1) :
       country_stats[i].Revenue = country_stats[i + 1].Revenue

\* a row passes a selection (a date tuple and a country set)
Passes(r, dr, sc) ==
  /\ Len(dr) = 2 => (dr[1] <= r.Date /\ r.Date <= dr[2])
  /\ sc # {} => r.Country \in sc

\* the intersection of two closed date intervals
IntervalMeet(a, b) ==
  << IF a[1] >= b[1] THEN a[1] ELSE b[1],
     IF a[2] <= b[2] THEN a[2] ELSE b[2] >>

\* the selections a second filter may apply
Selections == {<<dr, sc>> : dr \in DateChoices(df), sc \in CountryChoices(df)}

\* C9 (as claimed): filtering the view of one selection by a second
\* selection gives the rows that filtering the dataset once by the
\* intersection of the two date intervals and of the two country sets gives.
C9_ComposeByIntersection ==
  (pc \in Filtered /\ Len(date_range) = 2) =>
    \A r2 \in Selections :
      Len(r2[1]) = 2 =>
        Filter(filtered_df, r2[1], r2[2])
          = Filter(df, IntervalMeet(date_range, r2[1]),
                   selected_countries \cap r2[2])

\* C9 (amended): filtering the view of one selection by a second selection
\* gives exactly the rows of the dataset that pass both selections.  That is
\* the view of the intersection of the date intervals and of the country
\* sets when both intervals have two dates and the two country sets share
\* a country; an empty country set stands for every country, and two
\* non-empty sets without a common country give no rows.
C9_Amended ==
  pc \in Filtered =>
    \A r2 \in Selections :
      /\ Filter(filtered_df, r2[1], r2[2])
           = SelectSeq(df, LAMBDA r :
               /\ Passes(r, date_range, selected_countries)
               /\ Passes(r, r2[1], r2[2]))
      /\ (/\ Len(date_range) = 2 /\ Len(r2[1]) = 2
          /\ selected_countries \cap r2[2] # {}) =>
           Filter(filtered_df, r2[1], r2[2])
             = SelectSeq(df, LAMBDA r :
                 /\ IntervalMeet(date_range, r2[1])[1] <= r.Date
                 /\ r.Date <= IntervalMeet(date_range, r2[1])[2]
                 /\ r.Country \in selected_countries \cap r2[2])
      /\ (/\ selected_countries # {} /\ r2[2] # {}
          /\ selected_countries \cap r2[2] = {}) =>
           Filter(filtered_df, r2[1], r2[2]) = <<>>

\* C9 witness: a view of two rows that a second selection, overlapping the
\* first in dates and in countries, cuts down to one row
C9_Witness ==
  /\ pc = "filtered"
  /\ Len(date_range) = 2 /\ selected_countries # {}
  /\ Len(filtered_df) = 2
  /\ \E r2 \in Selections :
       /\ Len(r2[1]) = 2 /\ r2[1][1] > date_range[1]
       /\ selected_countries \cap r2[2] # {}
       /\ r2[2] # selected_countries
       /\ Len(Filter(filtered_df, r2[1], r2[2])) = 1

\* C10: once load_data has memoized the cleaned dataset, no step of any run
\* changes it, whatever the selection and however the run ends; every run
\* works on a dataset equal to the memoized one, and its filtered view is a
\* separate frame.
C10_DatasetUnchanged ==
  /\ [][cache.set => cache' = cache]_vars
  /\ [](pc \in Loaded => (cache.set /\ df = cache.value))

\* C10 witness: a later run (the memo was hit) has ended in the empty-result
\* stop after filtering a dataset that has rows
C10_Witness ==
  /\ pc = "no_data"
  /\ reads = <<>>
  /\ Len(cache.value) = 2
  /\ Len(filtered_df) = 0

====
